---- MODULE Spec2Model ----
(***************************************************************************)
(* Model of the asm_emu assembler back end:                                *)
(*   src/src/instr_repr.rs     Verb / Operand / Reg, Display, to_bytes,     *)
(*                             as_hex_file_line                             *)
(*   src/src/label_resolver.rs resolve_labels                              *)
(*                                                                         *)
(* An Operand is a record tagged by `kind`, a Verb a record tagged by `op`. *)
(* A Rust panic is modelled as a result record of kind "panic" carrying    *)
(* the panic message; a panic ends the run (nothing in the source catches  *)
(* it).  Text is modelled by TLA+ strings, bytes by naturals below 256.    *)
(***************************************************************************)
EXTENDS Integers, Sequences, FiniteSets, TLC

VARIABLES instrs, label_map, prev, orig, phase, panic_msg, passes, call, pending

vars == <<instrs, label_map, prev, orig, phase, panic_msg, passes, call, pending>>

(***************************************************************************)
(* Bounds of the model.                                                    *)
(***************************************************************************)
\* longest program the resolver is run on
MaxLen == 2
\* how many times the resolver pass may be run over the same program
MaxPasses == 2

(***************************************************************************)
(* Reg (instr_repr.rs:28-46) and its 4-bit id (instr_repr.rs:74-93).       *)
(***************************************************************************)
RegNames == <<"R0", "R1", "R2", "R3", "R4", "R5", "R6", "R7",
              "R8", "R9", "R10", "R11", "R12", "R13", "R14", "R15">>

Reg == {RegNames[i] : i \in 1..16}

to_id(r) == (CHOOSE i \in 1..16 : RegNames[i] = r) - 1

(***************************************************************************)
(* Operand (instr_repr.rs:48-55).                                          *)
(***************************************************************************)
OpReg(r) == [kind |-> "Reg", reg |-> r]
OpImm(v) == [kind |-> "Imm", imm |-> v]
OpLabel(s) == [kind |-> "Label", name |-> s]
OpMemAtReg(r) == [kind |-> "MemAtReg", reg |-> r]
OpMemAtImm(v) == [kind |-> "MemAtImm", imm |-> v]

(***************************************************************************)
(* Verb (instr_repr.rs:3-26).                                              *)
(***************************************************************************)
V0(op) == [op |-> op]
V1(op, a) == [op |-> op, o1 |-> a]
V2(op, a, b) == [op |-> op, o1 |-> a, o2 |-> b]

TwoOperandOps == {"Mov", "Jz", "Jnz", "Add", "Sub", "And", "Or", "Shl", "Shr"}
OneOperandOps == {"Jmp", "Not", "Call", "Dbg"}
NoOperandOps == {"Ret", "DbgRegs", "Nop", "Halt"}

\* the operands of a verb, in order
Operands(v) ==
    IF v.op \in TwoOperandOps THEN <<v.o1, v.o2>>
    ELSE IF v.op \in OneOperandOps THEN <<v.o1>>
    ELSE <<>>

(***************************************************************************)
(* u8 bit operations used by the encoder.                                  *)
(***************************************************************************)
RECURSIVE BitAndN(_, _, _)
BitAndN(a, b, n) ==
    IF n = 0 THEN 0
    ELSE (a % 2) * (b % 2) + 2 * BitAndN(a \div 2, b \div 2, n - 1)

RECURSIVE BitOrN(_, _, _)
BitOrN(a, b, n) ==
    IF n = 0 THEN 0
    ELSE (IF a % 2 = 1 \/ b % 2 = 1 THEN 1 ELSE 0)
         + 2 * BitOrN(a \div 2, b \div 2, n - 1)

BitAnd8(a, b) == BitAndN(a, b, 8)
BitOr8(a, b) == BitOrN(a, b, 8)
\* u8 << 4: the bits shifted out of the byte are dropped
Shl4(a) == (a * 16) % 256

\* u16::to_be_bytes
to_be_bytes(v) == <<v \div 256, v % 256>>

(***************************************************************************)
(* Results of a call that may panic.                                       *)
(***************************************************************************)
Ok(x) == [kind |-> "ok", val |-> x]
Bytes(b) == [kind |-> "bytes", bytes |-> b]
Panic(msg) == [kind |-> "panic", msg |-> msg]

\* the message of panic!() with no arguments
ExplicitPanic == "explicit panic"
\* the message of unreachable!()
UnreachablePanic == "internal error: entered unreachable code"

(***************************************************************************)
(* Operand::to_reg / Operand::to_imm (instr_repr.rs:57-71).                *)
(***************************************************************************)
to_reg(o) == IF o.kind = "Reg" THEN Ok(o.reg) ELSE Panic(ExplicitPanic)

\* a to_imm that coerces an operand of the wrong kind to address 0
to_imm_defaulting(o) == IF o.kind = "Imm" THEN Ok(o.imm) ELSE Ok(0)

to_imm(o) == IF o.kind = "Imm" THEN Ok(o.imm) ELSE Panic(ExplicitPanic)

(***************************************************************************)
(* Nibble writers (instr_repr.rs:95-103, 306-309): the byte after the      *)
(* write, given the byte before it.                                        *)
(***************************************************************************)
write_into_byte_lower(r, b) == BitOr8(BitAnd8(b, 240), to_id(r))

\* an upper-nibble write that forgets the shift
write_into_byte_upper_unshifted(r, b) == BitOr8(BitAnd8(b, 15), to_id(r))

write_into_byte_upper(r, b) == BitOr8(BitAnd8(b, 15), Shl4(to_id(r)))

\* an immediate write that forgets to mask the immediate to 4 bits
write_imm_to_byte_lower_unmasked(imm, b) ==
    BitOr8(BitAnd8(b, 240), to_be_bytes(imm)[2])

write_imm_to_byte_lower(imm, b) ==
    BitOr8(BitAnd8(b, 240), BitAnd8(to_be_bytes(imm)[2], 15))

(***************************************************************************)
(* Verb::to_bytes (instr_repr.rs:150-292).  res starts as [0, 0, 0]; each  *)
(* arm is written in the order the source assigns the bytes.               *)
(***************************************************************************)
\* res[0] = opc; r.write_into_byte_lower(&mut res[0]); [res[1], res[2]] = imm
RegImmForm(opc, r, imm) ==
    Bytes(<<write_into_byte_lower(r, opc), to_be_bytes(imm)[1], to_be_bytes(imm)[2]>>)

\* res[0] = 0xF0; res[1] = sub; upper(ra), then lower(rb), into res[2]
ExtRegRegForm(sub, ra, rb) ==
    Bytes(<<240, sub, write_into_byte_lower(rb, write_into_byte_upper(ra, 0))>>)

\* res[0] = opc; [res[1], res[2]] = operand.to_imm().to_be_bytes()
ImmForm(opc, o) ==
    LET i == to_imm(o) IN
    IF i.kind = "panic" THEN i
    ELSE Bytes(<<opc, to_be_bytes(i.val)[1], to_be_bytes(i.val)[2]>>)

MovBytes(op1, op2) ==
    CASE op1.kind = "Reg" /\ op2.kind = "Imm" -> RegImmForm(16, op1.reg, op2.imm)
      [] op1.kind = "Reg" /\ op2.kind = "MemAtImm" -> RegImmForm(32, op1.reg, op2.imm)
      [] op1.kind = "MemAtImm" /\ op2.kind = "Reg" -> RegImmForm(48, op2.reg, op1.imm)
      [] op1.kind = "Reg" /\ op2.kind = "Reg" -> ExtRegRegForm(0, op1.reg, op2.reg)
      [] op1.kind = "Reg" /\ op2.kind = "MemAtReg" -> ExtRegRegForm(1, op1.reg, op2.reg)
      [] op1.kind = "MemAtReg" /\ op2.kind = "Reg" -> ExtRegRegForm(2, op1.reg, op2.reg)
      [] OTHER -> Panic(UnreachablePanic)

\* Jz / Jnz: r.to_reg() is evaluated before imm.to_imm()
CondJumpBytes(opc, imm, r) ==
    LET rr == to_reg(r)
        ii == to_imm(imm)
    IN  IF rr.kind = "panic" THEN rr
        ELSE IF ii.kind = "panic" THEN ii
        ELSE RegImmForm(opc, rr.val, ii.val)

AluBytes(op, op1, op2) ==
    CASE op1.kind = "Reg" /\ op2.kind = "Reg" ->
            ExtRegRegForm(CASE op = "Add" -> 32 [] op = "Sub" -> 33
                            [] op = "And" -> 34 [] op = "Or" -> 35,
                          op1.reg, op2.reg)
      [] op1.kind = "Reg" /\ op2.kind = "Imm" ->
            RegImmForm(CASE op = "Add" -> 160 [] op = "Sub" -> 176
                         [] op = "And" -> 192 [] op = "Or" -> 208,
                       op1.reg, op2.imm)
      [] OTHER -> Panic(UnreachablePanic)

NotBytes(r) ==
    LET rr == to_reg(r) IN
    IF rr.kind = "panic" THEN rr
    ELSE Bytes(<<240, 36, write_into_byte_upper(rr.val, 0)>>)

ShiftBytes(op, op1, op2) ==
    CASE op1.kind = "Reg" /\ op2.kind = "Reg" ->
            ExtRegRegForm(IF op = "Shl" THEN 49 ELSE 51, op1.reg, op2.reg)
      [] op1.kind = "Reg" /\ op2.kind = "Imm" ->
            Bytes(<<240, IF op = "Shl" THEN 48 ELSE 50,
                    write_imm_to_byte_lower(op2.imm, write_into_byte_upper(op1.reg, 0))>>)
      [] OTHER -> Panic(UnreachablePanic)

to_bytes(v) ==
    CASE v.op = "Mov" -> MovBytes(v.o1, v.o2)
      [] v.op = "Jmp" -> ImmForm(227, v.o1)
      [] v.op = "Jz" -> CondJumpBytes(64, v.o1, v.o2)
      [] v.op = "Jnz" -> CondJumpBytes(80, v.o1, v.o2)
      [] v.op \in {"Add", "Sub", "And", "Or"} -> AluBytes(v.op, v.o1, v.o2)
      [] v.op = "Not" -> NotBytes(v.o1)
      [] v.op \in {"Shl", "Shr"} -> ShiftBytes(v.op, v.o1, v.o2)
      [] v.op = "Dbg" -> ImmForm(224, v.o1)
      [] v.op = "DbgRegs" -> Bytes(<<225, 0, 0>>)
      [] v.op = "Nop" -> Bytes(<<0, 0, 0>>)
      [] v.op = "Halt" -> Bytes(<<255, 255, 255>>)
      [] v.op = "Call" -> ImmForm(228, v.o1)
      [] v.op = "Ret" -> Bytes(<<255, 255, 240>>)

(***************************************************************************)
(* Number formatting used by the Display impls and the hex listing line.   *)
(***************************************************************************)
Digits == <<"0", "1", "2", "3", "4", "5", "6", "7", "8", "9",
            "A", "B", "C", "D", "E", "F">>

\* "{}" of an unsigned integer: decimal, no padding
RECURSIVE FmtDec(_)
FmtDec(n) == IF n < 10 THEN Digits[n + 1] ELSE FmtDec(n \div 10) \o Digits[(n % 10) + 1]

\* "{:X}": upper-case hex, no padding
RECURSIVE FmtUpperHex(_)
FmtUpperHex(n) ==
    IF n < 16 THEN Digits[n + 1] ELSE FmtUpperHex(n \div 16) \o Digits[(n % 16) + 1]

\* "{:0>2X}" of a u8: upper-case hex, padded on the left with '0' to width 2
FmtHexByte(b) == IF b < 16 THEN "0" \o FmtUpperHex(b) ELSE FmtUpperHex(b)

(***************************************************************************)
(* impl fmt::Display for Reg / Operand / Verb (instr_repr.rs:106-147).     *)
(***************************************************************************)
DisplayReg(r) == "R" \o FmtDec(to_id(r))

DisplayOperand(o) ==
    CASE o.kind = "Reg" -> DisplayReg(o.reg)
      [] o.kind = "Imm" -> "0x" \o FmtUpperHex(o.imm)
      [] o.kind = "Label" -> o.name
      [] o.kind = "MemAtReg" -> "[" \o DisplayReg(o.reg) \o "]"
      [] o.kind = "MemAtImm" -> "[0x" \o FmtUpperHex(o.imm) \o "]"

DisplayVerb(v) ==
    CASE v.op = "Mov" -> "mov " \o DisplayOperand(v.o1) \o " " \o DisplayOperand(v.o2)
      [] v.op = "Jmp" -> "jmp " \o DisplayOperand(v.o1) \o " "
      [] v.op = "Jz" -> "jz " \o DisplayOperand(v.o1) \o " " \o DisplayOperand(v.o2)
      [] v.op = "Jnz" -> "jnz " \o DisplayOperand(v.o1) \o " " \o DisplayOperand(v.o2)
      [] v.op = "Add" -> "add " \o DisplayOperand(v.o1) \o " " \o DisplayOperand(v.o2)
      [] v.op = "Sub" -> "sub " \o DisplayOperand(v.o1) \o " " \o DisplayOperand(v.o2)
      [] v.op = "And" -> "and " \o DisplayOperand(v.o1) \o " " \o DisplayOperand(v.o2)
      [] v.op = "Or" -> "or " \o DisplayOperand(v.o1) \o " " \o DisplayOperand(v.o2)
      [] v.op = "Not" -> "not " \o DisplayOperand(v.o1)
      [] v.op = "Shl" -> "shl " \o DisplayOperand(v.o1) \o " " \o DisplayOperand(v.o2)
      [] v.op = "Shr" -> "shr " \o DisplayOperand(v.o1) \o " " \o DisplayOperand(v.o2)
      [] v.op = "Dbg" -> "dbg " \o DisplayOperand(v.o1)
      [] v.op = "DbgRegs" -> "dbg"
      [] v.op = "Nop" -> "nop"
      [] v.op = "Halt" -> "halt"
      [] v.op = "Call" -> "call " \o DisplayOperand(v.o1)
      [] v.op = "Ret" -> "ret"

(***************************************************************************)
(* Verb::as_hex_file_line (instr_repr.rs:294-303): to_bytes first, so a    *)
(* panic of the encoder is a panic of the listing line.                    *)
(***************************************************************************)
as_hex_file_line(v) ==
    LET b == to_bytes(v) IN
    IF b.kind = "panic" THEN b
    ELSE Ok(FmtHexByte(b.bytes[1]) \o "_" \o FmtHexByte(b.bytes[2]) \o "_"
            \o FmtHexByte(b.bytes[3]) \o "  // " \o DisplayVerb(v))

(***************************************************************************)
(* resolve_labels (label_resolver.rs:5-25).                                *)
(***************************************************************************)
JumpOps == {"Jmp", "Jz", "Jnz", "Call"}

\* HashMap::get: Some(addr) or None
MapGet(map, s) == IF s \in DOMAIN map THEN Ok(map[s]) ELSE [kind |-> "none"]

\* a loop body that forgets the Call arm of the match
resolve_verb_without_call(verb, map) ==
    IF verb.op \in (JumpOps \ {"Call"}) /\ verb.o1.kind = "Label"
    THEN LET optional_addr == MapGet(map, verb.o1.name) IN
         IF optional_addr.kind = "ok"
         THEN Ok([verb EXCEPT !.o1 = OpImm(optional_addr.val)])
         ELSE Panic("unresolved label: " \o verb.o1.name)
    ELSE Ok(verb)

\* a loop body that also rewrites a label in the second operand of Jz / Jnz
resolve_verb_both_operands(verb, map) ==
    IF verb.op \in JumpOps /\ verb.o1.kind = "Label"
    THEN LET optional_addr == MapGet(map, verb.o1.name) IN
         IF optional_addr.kind = "ok"
         THEN Ok(IF verb.op \in {"Jz", "Jnz"} /\ verb.o2.kind = "Label"
                    /\ verb.o2.name \in DOMAIN map
                 THEN [verb EXCEPT !.o1 = OpImm(optional_addr.val),
                                   !.o2 = OpImm(map[verb.o2.name])]
                 ELSE [verb EXCEPT !.o1 = OpImm(optional_addr.val)])
         ELSE Panic("unresolved label: " \o verb.o1.name)
    ELSE Ok(verb)

\* a loop body that skips a label the table does not hold instead of failing
resolve_verb_skip_missing(verb, map) ==
    IF verb.op \in JumpOps /\ verb.o1.kind = "Label"
    THEN LET optional_addr == MapGet(map, verb.o1.name) IN
         IF optional_addr.kind = "ok"
         THEN Ok([verb EXCEPT !.o1 = OpImm(optional_addr.val)])
         ELSE Ok(verb)
    ELSE Ok(verb)

\* the body of the for loop (label_resolver.rs:7-23) on one instruction:
\* the instruction after it, or the panic it raises
resolve_verb(verb, map) ==
    IF verb.op \in JumpOps /\ verb.o1.kind = "Label"
    THEN LET optional_addr == MapGet(map, verb.o1.name) IN
         IF optional_addr.kind = "ok"
         THEN Ok([verb EXCEPT !.o1 = OpImm(optional_addr.val)])
         ELSE Panic("unresolved label: " \o verb.o1.name)
    ELSE Ok(verb)

\* the for loop from instruction i on: the sequence as the loop leaves it,
\* and the panic message if the loop was left by a panic ("" if not)
RECURSIVE resolve_from(_, _, _)
resolve_from(is, map, i) ==
    IF i > Len(is) THEN [instrs |-> is, panic |-> ""]
    ELSE LET r == resolve_verb(is[i], map) IN
         IF r.kind = "panic" THEN [instrs |-> is, panic |-> r.msg]
         ELSE resolve_from([is EXCEPT ![i] = r.val], map, i + 1)

resolve_labels(is, map) == resolve_from(is, map, 1)

(***************************************************************************)
(* Inputs.                                                                 *)
(***************************************************************************)
\* 16-bit immediates: the ends of the range, both byte boundaries, values
\* below, at and above the 4-bit shift range, and the addresses of the maps
ImmVals == {0, 6, 15, 16, 31, 255, 256, 258, 4660, 65535}

LabelNames == {"loop", "end"}

\* addresses a label may be mapped to: one below 256, one with a high byte
Addrs == {6, 258}

AllOperands ==
    {OpReg(r) : r \in Reg} \cup {OpImm(v) : v \in ImmVals}
    \cup {OpLabel(s) : s \in LabelNames}
    \cup {OpMemAtReg(r) : r \in Reg} \cup {OpMemAtImm(v) : v \in ImmVals}

\* every verb over every operand kind in every position
AllVerbs ==
    {V2(op, a, b) : op \in TwoOperandOps, a \in AllOperands, b \in AllOperands}
    \cup {V1(op, a) : op \in OneOperandOps, a \in AllOperands}
    \cup {V0(op) : op \in NoOperandOps}

\* the operands the programs given to the resolver are built from
ProgOperands == {OpReg("R4"), OpImm(16), OpLabel("loop"), OpLabel("end")}

\* the verbs of those programs: the four control transfers with every
\* operand kind in the first position (Jz with a register or a label in the
\* second, Jnz with a register), and other verbs with and without labels
ProgVerbs ==
    {V1(op, a) : op \in {"Jmp", "Call"}, a \in ProgOperands}
    \cup {V2("Jz", a, b) : a \in ProgOperands, b \in {OpReg("R4"), OpLabel("loop")}}
    \cup {V2("Jnz", a, OpReg("R9")) : a \in ProgOperands}
    \cup {V2("Mov", OpReg("R1"), OpImm(255)), V2("Mov", OpReg("R1"), OpLabel("loop")),
          V2("Add", OpLabel("end"), OpReg("R2")), V1("Not", OpLabel("loop")),
          V0("Nop")}

Programs == UNION {[1..n -> ProgVerbs] : n \in 0..MaxLen}

\* the symbol tables: every map from some of the label names to addresses
LabelMaps == UNION {[S -> Addrs] : S \in SUBSET LabelNames}

(***************************************************************************)
(* State.                                                                  *)
(*   instrs     the program (Vec<Verb>), mutated in place by the resolver  *)
(*   label_map  the symbol table (&HashMap<String, u16>)                   *)
(*   orig       the program as the parser produced it                      *)
(*   prev       the program as it was when the latest pass started         *)
(*   phase      "unresolved", "ready" (for the encoder) or "panicked"      *)
(*   panic_msg  the message of the panic that ended the run                *)
(*   passes     the number of resolver passes run                          *)
(*   call       the latest call and what it returned                       *)
(*   pending    the instructions an out-of-order resolution has not done   *)
(***************************************************************************)
NoCall == [fn |-> "none"]

Init ==
    /\ instrs \in Programs
    /\ label_map \in LabelMaps
    /\ prev = instrs
    /\ orig = instrs
    /\ phase = "unresolved"
    /\ panic_msg = ""
    /\ passes = 0
    /\ call = NoCall
    /\ pending = {}

\* resolve_labels(&mut instrs, &label_map), the whole sweep
ResolveLabels ==
    /\ phase \in {"unresolved", "ready"}
    /\ passes < MaxPasses
    /\ LET r == resolve_labels(instrs, label_map) IN
        /\ instrs' = r.instrs
        /\ phase' = IF r.panic = "" THEN "ready" ELSE "panicked"
        /\ panic_msg' = r.panic
    /\ prev' = instrs
    /\ passes' = passes + 1
    /\ call' = [fn |-> "resolve_labels"]
    /\ UNCHANGED <<label_map, orig, pending>>

\* instrs[i].to_bytes()
ToBytes(i) ==
    /\ phase = "ready"
    /\ LET ret == to_bytes(instrs[i]) IN
        /\ call' = [fn |-> "to_bytes", idx |-> i, verb |-> instrs[i], ret |-> ret]
        /\ phase' = IF ret.kind = "panic" THEN "panicked" ELSE phase
        /\ panic_msg' = IF ret.kind = "panic" THEN ret.msg ELSE panic_msg
    /\ UNCHANGED <<instrs, label_map, prev, orig, passes, pending>>

\* format!("{}", instrs[i])
Display(i) ==
    /\ phase = "ready"
    /\ call' = [fn |-> "fmt", idx |-> i, verb |-> instrs[i],
                ret |-> Ok(DisplayVerb(instrs[i]))]
    /\ UNCHANGED <<instrs, label_map, prev, orig, phase, panic_msg, passes, pending>>

\* instrs[i].as_hex_file_line()
AsHexFileLine(i) ==
    /\ phase = "ready"
    /\ LET ret == as_hex_file_line(instrs[i]) IN
        /\ call' = [fn |-> "as_hex_file_line", idx |-> i, verb |-> instrs[i], ret |-> ret]
        /\ phase' = IF ret.kind = "panic" THEN "panicked" ELSE phase
        /\ panic_msg' = IF ret.kind = "panic" THEN ret.msg ELSE panic_msg
    /\ UNCHANGED <<instrs, label_map, prev, orig, passes, pending>>

\* the loop body of resolve_labels applied to instruction i alone, the
\* instructions being taken in any order
ResolveOne(i) ==
    /\ phase = "unresolved"
    /\ i \in pending
    /\ LET r == resolve_verb(instrs[i], label_map) IN
        /\ instrs' = IF r.kind = "panic" THEN instrs ELSE [instrs EXCEPT ![i] = r.val]
        /\ phase' = IF r.kind = "panic" THEN "panicked"
                    ELSE IF pending = {i} THEN "ready" ELSE phase
        /\ panic_msg' = IF r.kind = "panic" THEN r.msg ELSE panic_msg
    /\ pending' = pending \ {i}
    /\ call' = [fn |-> "resolve_verb", idx |-> i]
    /\ UNCHANGED <<label_map, prev, orig, passes>>

(***************************************************************************)
(* Spec: parser output -> resolve_labels -> to_bytes of each instruction.  *)
(***************************************************************************)
ToBytesAny == \E i \in 1..Len(instrs) : ToBytes(i)

Next == ResolveLabels \/ ToBytesAny

Spec == Init /\ [][Next]_vars

(***************************************************************************)
(* SpecEnc: the encoder and the renderers applied to one verb, any verb.   *)
(***************************************************************************)
InitEnc ==
    /\ instrs \in {<<v>> : v \in AllVerbs}
    /\ label_map = <<>>
    /\ prev = instrs
    /\ orig = instrs
    /\ phase = "ready"
    /\ panic_msg = ""
    /\ passes = 0
    /\ call = NoCall
    /\ pending = {}

DisplayAny == \E i \in 1..Len(instrs) : Display(i)

AsHexFileLineAny == \E i \in 1..Len(instrs) : AsHexFileLine(i)

NextEnc == ToBytesAny \/ DisplayAny \/ AsHexFileLineAny

SpecEnc == InitEnc /\ [][NextEnc]_vars

(***************************************************************************)
(* SpecPar: the per-instruction step applied in any order.                 *)
(***************************************************************************)
InitPar ==
    /\ instrs \in Programs
    /\ label_map \in LabelMaps
    /\ prev = instrs
    /\ orig = instrs
    /\ phase = IF Len(instrs) = 0 THEN "ready" ELSE "unresolved"
    /\ panic_msg = ""
    /\ passes = 0
    /\ call = NoCall
    /\ pending = 1..Len(instrs)

ResolveOneAny == \E i \in 1..Len(instrs) : ResolveOne(i)

NextPar == ResolveOneAny

SpecPar == InitPar /\ [][NextPar]_vars

(***************************************************************************)
(* The byte-layout table of the encoder's contract, row by row: which      *)
(* operand kinds a verb takes, and the three bytes of each row.            *)
(***************************************************************************)
Kinds(v) == [k \in 1..Len(Operands(v)) |-> Operands(v)[k].kind]

TableRows ==
    {<<"Mov", <<"Reg", "Imm">>>>, <<"Mov", <<"Reg", "MemAtImm">>>>,
     <<"Mov", <<"MemAtImm", "Reg">>>>, <<"Mov", <<"Reg", "Reg">>>>,
     <<"Mov", <<"Reg", "MemAtReg">>>>, <<"Mov", <<"MemAtReg", "Reg">>>>,
     <<"Jmp", <<"Imm">>>>, <<"Jz", <<"Imm", "Reg">>>>, <<"Jnz", <<"Imm", "Reg">>>>,
     <<"Not", <<"Reg">>>>, <<"Dbg", <<"Imm">>>>, <<"Call", <<"Imm">>>>,
     <<"DbgRegs", <<>>>>, <<"Nop", <<>>>>, <<"Halt", <<>>>>, <<"Ret", <<>>>>}
    \cup {<<op, <<"Reg", k>>>> : op \in {"Add", "Sub", "And", "Or", "Shl", "Shr"},
                                 k \in {"Reg", "Imm"}}

IsTableRow(v) == <<v.op, Kinds(v)>> \in TableRows

HasLabel(v) == \E k \in 1..Len(Operands(v)) : Operands(v)[k].kind = "Label"

Hi(imm) == imm \div 256
Lo(imm) == imm % 256

\* the bytes the table gives for a verb that is one of its rows
RowBytes(v) ==
    LET ks == Kinds(v) IN
    CASE v.op = "Mov" /\ ks = <<"Reg", "Imm">> ->
            <<16 + to_id(v.o1.reg), Hi(v.o2.imm), Lo(v.o2.imm)>>
      [] v.op = "Mov" /\ ks = <<"Reg", "MemAtImm">> ->
            <<32 + to_id(v.o1.reg), Hi(v.o2.imm), Lo(v.o2.imm)>>
      [] v.op = "Mov" /\ ks = <<"MemAtImm", "Reg">> ->
            <<48 + to_id(v.o2.reg), Hi(v.o1.imm), Lo(v.o1.imm)>>
      [] v.op = "Mov" /\ ks = <<"Reg", "Reg">> ->
            <<240, 0, 16 * to_id(v.o1.reg) + to_id(v.o2.reg)>>
      [] v.op = "Mov" /\ ks = <<"Reg", "MemAtReg">> ->
            <<240, 1, 16 * to_id(v.o1.reg) + to_id(v.o2.reg)>>
      [] v.op = "Mov" /\ ks = <<"MemAtReg", "Reg">> ->
            <<240, 2, 16 * to_id(v.o1.reg) + to_id(v.o2.reg)>>
      [] v.op = "Jmp" -> <<227, Hi(v.o1.imm), Lo(v.o1.imm)>>
      [] v.op = "Jz" -> <<64 + to_id(v.o2.reg), Hi(v.o1.imm), Lo(v.o1.imm)>>
      [] v.op = "Jnz" -> <<80 + to_id(v.o2.reg), Hi(v.o1.imm), Lo(v.o1.imm)>>
      [] v.op \in {"Add", "Sub", "And", "Or"} /\ ks = <<"Reg", "Reg">> ->
            <<240,
              CASE v.op = "Add" -> 32 [] v.op = "Sub" -> 33
                [] v.op = "And" -> 34 [] v.op = "Or" -> 35,
              16 * to_id(v.o1.reg) + to_id(v.o2.reg)>>
      [] v.op \in {"Add", "Sub", "And", "Or"} /\ ks = <<"Reg", "Imm">> ->
            <<(CASE v.op = "Add" -> 160 [] v.op = "Sub" -> 176
                 [] v.op = "And" -> 192 [] v.op = "Or" -> 208) + to_id(v.o1.reg),
              Hi(v.o2.imm), Lo(v.o2.imm)>>
      [] v.op = "Not" -> <<240, 36, 16 * to_id(v.o1.reg)>>
      [] v.op \in {"Shl", "Shr"} /\ ks = <<"Reg", "Reg">> ->
            <<240, IF v.op = "Shl" THEN 49 ELSE 51,
              16 * to_id(v.o1.reg) + to_id(v.o2.reg)>>
      [] v.op \in {"Shl", "Shr"} /\ ks = <<"Reg", "Imm">> ->
            <<240, IF v.op = "Shl" THEN 48 ELSE 50,
              16 * to_id(v.o1.reg) + (v.o2.imm % 16)>>
      [] v.op = "Dbg" -> <<224, Hi(v.o1.imm), Lo(v.o1.imm)>>
      [] v.op = "DbgRegs" -> <<225, 0, 0>>
      [] v.op = "Call" -> <<228, Hi(v.o1.imm), Lo(v.o1.imm)>>
      [] v.op = "Nop" -> <<0, 0, 0>>
      [] v.op = "Halt" -> <<255, 255, 255>>
      [] v.op = "Ret" -> <<255, 255, 240>>

\* the latest call was to_bytes
Encoded == call.fn = "to_bytes"

\* a resolver pass has run and the latest one returned
ResolveSucceeded == passes >= 1 /\ ~(phase = "panicked" /\ call.fn = "resolve_labels")

\* the latest resolver pass panicked
ResolveFailed == phase = "panicked" /\ call.fn = "resolve_labels"

\* instruction v has a label as the first operand of a control transfer
IsSymbolicJump(v) == v.op \in JumpOps /\ v.o1.kind = "Label"

(***************************************************************************)
(* Claims about the encoder and the renderers, checked under SpecEnc.      *)
(***************************************************************************)

\* C3: for every row of the byte-layout table, every register and every
\* immediate, to_bytes returns exactly the three bytes the row gives.
C3_TableRowsEncodeExactly ==
    (Encoded /\ IsTableRow(call.verb)) => call.ret = Bytes(RowBytes(call.verb))

\* Mov(Reg(R1), Imm(0x00FF)) has been encoded, to 11 00 FF
C3_Witness ==
    /\ Encoded
    /\ call.verb = V2("Mov", OpReg("R1"), OpImm(255))
    /\ call.ret = Bytes(<<17, 0, 255>>)

\* C4 as stated: an operand-kind combination outside the table comes back
\* from to_bytes as an error value, and the run goes on (no abort).
C4_UnsupportedIsErrorValue ==
    (Encoded /\ ~IsTableRow(call.verb)) =>
        (call.ret.kind = "error" /\ phase # "panicked")

\* C8: Shl/Shr of a register by an immediate v encodes to F0 30/32 b2 with
\* b2 = (id << 4) | (v mod 16), for every v, with no failure for v > 15.
C8_ShiftImmTruncated ==
    (/\ Encoded
     /\ call.verb.op \in {"Shl", "Shr"}
     /\ Kinds(call.verb) = <<"Reg", "Imm">>) =>
        call.ret = Bytes(<<240, IF call.verb.op = "Shl" THEN 48 ELSE 50,
                           16 * to_id(call.verb.o1.reg) + (call.verb.o2.imm % 16)>>)

\* a shift of a register other than R0 by an immediate above 15 has been encoded
C8_Witness ==
    /\ Encoded
    /\ call.verb = V2("Shl", OpReg("R5"), OpImm(31))
    /\ call.ret = Bytes(<<240, 48, 95>>)

\* C9: to_bytes returns three bytes if and only if the verb and its operand
\* kinds are a row of the table; a Label in any operand position of any
\* verb makes it fail.
C9_BytesIffTableRow ==
    Encoded =>
        /\ (call.ret.kind = "bytes") <=> IsTableRow(call.verb)
        /\ call.ret.kind = "bytes" => Len(call.ret.bytes) = 3
        /\ HasLabel(call.verb) => call.ret.kind = "panic"

\* to_bytes has been called on a jump whose target is still a label, and failed
C9_Witness ==
    /\ Encoded
    /\ call.verb = V1("Jmp", OpLabel("loop"))
    /\ call.ret.kind = "panic"

\* the canonical text of the claim: the mnemonic, then each operand after
\* exactly one space, and nothing after the last operand
Mnemonic(v) ==
    CASE v.op = "Mov" -> "mov" [] v.op = "Jmp" -> "jmp" [] v.op = "Jz" -> "jz"
      [] v.op = "Jnz" -> "jnz" [] v.op = "Add" -> "add" [] v.op = "Sub" -> "sub"
      [] v.op = "And" -> "and" [] v.op = "Or" -> "or" [] v.op = "Not" -> "not"
      [] v.op = "Shl" -> "shl" [] v.op = "Shr" -> "shr" [] v.op = "Dbg" -> "dbg"
      [] v.op = "DbgRegs" -> "dbg" [] v.op = "Nop" -> "nop" [] v.op = "Halt" -> "halt"
      [] v.op = "Call" -> "call" [] v.op = "Ret" -> "ret"

RECURSIVE SpacedOperands(_)
SpacedOperands(ops) ==
    IF ops = <<>> THEN ""
    ELSE " " \o DisplayOperand(Head(ops)) \o SpacedOperands(Tail(ops))

CanonicalText(v) == Mnemonic(v) \o SpacedOperands(Operands(v))

\* C10 as stated: the rendered text of every verb is the canonical text, and
\* the hex listing line is the three bytes as XX_XX_XX, two spaces, "//", one
\* space, and that text.
C10_RenderingCanonical ==
    /\ call.fn = "fmt" => call.ret.val = CanonicalText(call.verb)
    /\ (call.fn = "as_hex_file_line" /\ call.ret.kind = "ok") =>
          LET b == RowBytes(call.verb) IN
          call.ret.val = FmtHexByte(b[1]) \o "_" \o FmtHexByte(b[2]) \o "_"
                         \o FmtHexByte(b[3]) \o "  // " \o CanonicalText(call.verb)

(***************************************************************************)
(* Claims about the resolver and the resolve-then-encode pipeline, checked *)
(* under Spec.                                                             *)
(***************************************************************************)

\* C1 as stated: after a successful resolve_labels no operand of any
\* instruction, in any position of any verb, is a Label.
C1_NoLabelAnywhere ==
    ResolveSucceeded => \A i \in 1..Len(instrs) : ~HasLabel(instrs[i])

\* C1: after a successful resolve_labels the first operand of every
\* Jmp/Jz/Jnz/Call is not a Label, and every other operand (those of the
\* other verbs, and the second operand of Jz/Jnz) is what it was, a Label
\* included.
C1_NoLabelInJumpTarget ==
    ResolveSucceeded =>
        /\ Len(instrs) = Len(orig)
        /\ \A i \in 1..Len(instrs) :
            /\ instrs[i].op \in JumpOps => instrs[i].o1.kind # "Label"
            /\ instrs[i].op \notin JumpOps => instrs[i] = orig[i]
            /\ instrs[i].op \in {"Jz", "Jnz"} => instrs[i].o2 = orig[i].o2

\* a pass has resolved a jump target and left a label in another position
C1_Witness ==
    /\ ResolveSucceeded
    /\ \E i \in 1..Len(instrs) : IsSymbolicJump(orig[i]) /\ instrs[i].o1.kind = "Imm"
    /\ \E j \in 1..Len(instrs) : HasLabel(instrs[j])

\* C2 as stated: a failed pass names the label that is absent from the
\* table, and every instruction other than the offending one is as it was
\* when the pass started.
C2_FailureLeavesOthersUntouched ==
    ResolveFailed =>
        \E k \in 1..Len(prev) :
            /\ IsSymbolicJump(prev[k])
            /\ prev[k].o1.name \notin DOMAIN label_map
            /\ panic_msg = "unresolved label: " \o prev[k].o1.name
            /\ \A j \in (1..Len(instrs)) \ {k} : instrs[j] = prev[j]

\* the opcode byte of a resolved control transfer
JumpOpcode(v) ==
    CASE v.op = "Jmp" -> 227
      [] v.op = "Call" -> 228
      [] v.op = "Jz" -> 64 + to_id(v.o2.reg)
      [] v.op = "Jnz" -> 80 + to_id(v.o2.reg)

\* C5: a Jmp/Call/Jz/Jnz whose target is a label n of the table becomes the
\* same verb with first operand Imm(table[n]), and (with a register as the
\* second operand of Jz/Jnz) encodes to the opcode byte, then the high and
\* the low byte of table[n].
C5_ResolveThenEncode ==
    ResolveSucceeded =>
        \A i \in 1..Len(orig) :
            (IsSymbolicJump(orig[i]) /\ orig[i].o1.name \in DOMAIN label_map) =>
                LET a == label_map[orig[i].o1.name] IN
                /\ instrs[i] = [orig[i] EXCEPT !.o1 = OpImm(a)]
                /\ (/\ Encoded
                    /\ call.idx = i
                    /\ orig[i].op \in {"Jz", "Jnz"} => orig[i].o2.kind = "Reg") =>
                        call.ret = Bytes(<<JumpOpcode(orig[i]), a \div 256, a % 256>>)

\* Jz(Label("end"), Reg(R4)) with end = 0x0102 has been resolved and
\* encoded, to 44 01 02
C5_Witness ==
    /\ ResolveSucceeded
    /\ Encoded
    /\ orig[call.idx] = V2("Jz", OpLabel("end"), OpReg("R4"))
    /\ call.ret = Bytes(<<68, 1, 2>>)

\* what a pass may do to one instruction: replace a label in the first
\* operand of a control transfer by its address, and nothing else
PureSubstitution(old, new) ==
    IF IsSymbolicJump(old)
    THEN /\ old.o1.name \in DOMAIN label_map
         /\ new = [old EXCEPT !.o1 = OpImm(label_map[old.o1.name])]
    ELSE new = old

\* C6: a successful pass keeps the length and the order of the program and
\* is a pure substitution on each instruction, so a program without
\* symbolic jump targets is unchanged and a second pass changes nothing;
\* the symbol table is never modified.
C6_PureSubstitution ==
    /\ [](ResolveSucceeded =>
            /\ Len(instrs) = Len(prev)
            /\ \A i \in 1..Len(instrs) : PureSubstitution(prev[i], instrs[i])
            /\ (\A i \in 1..Len(prev) : ~HasLabel(prev[i])) => instrs = prev
            /\ passes >= 2 => instrs = prev)
    /\ [][label_map' = label_map]_vars

\* a second pass has run over a program whose first pass resolved a label
C6_Witness ==
    /\ ResolveSucceeded
    /\ passes = 2
    /\ instrs # orig
    /\ instrs = prev

(***************************************************************************)
(* Claim about the order of resolution, checked under SpecPar.             *)
(***************************************************************************)

\* C7 as stated: taking the instructions in any order ends in the same
\* program and the same success or failure as the front-to-back sweep.
C7_OrderIndependent ==
    (phase = "panicked" \/ pending = {}) =>
        LET seq == resolve_labels(orig, label_map) IN
        /\ instrs = seq.instrs
        /\ (phase = "panicked") <=> (seq.panic # "")

====
